---- MODULE Spec2Model ----
(***************************************************************************)
(* Model of the NVSpeechPlayer phonetic front-end:                         *)
(*   - the C API of a front-end handle (create / setLanguage / queueIPA /  *)
(*     getLastError) from src/src/frontend/nvspFrontend.cpp,               *)
(*   - the boundary-smoothing pass (passes/boundary_smoothing.cpp),        *)
(*   - the coarticulation pass (passes/coarticulation.cpp).                *)
(*                                                                         *)
(* C++ doubles are modelled as exact rationals [n, d] in lowest terms with *)
(* d > 0, so that a division by the speech rate is a real division.        *)
(***************************************************************************)
EXTENDS Integers, Sequences, FiniteSets, TLC

----------------------------------------------------------------------------
(* Arithmetic on doubles, as exact rationals.                              *)

Abs(x) == IF x < 0 THEN -x ELSE x

RECURSIVE GCD(_, _)
GCD(a, b) == IF b = 0 THEN a ELSE GCD(b, a % b)

\* The rational n/d (d # 0) in lowest terms with a positive denominator.
Rat(n, d) ==
  LET g == GCD(Abs(n), Abs(d))
      s == IF d < 0 THEN -1 ELSE 1
  IN [n |-> (s * n) \div g, d |-> (s * d) \div g]

\* An integer literal such as 0.0, 1.0 or 60.0.
R(i) == [n |-> i, d |-> 1]

RAdd(a, b) == Rat(a.n * b.d + b.n * a.d, a.d * b.d)
RSub(a, b) == Rat(a.n * b.d - b.n * a.d, a.d * b.d)
RMul(a, b) == Rat(a.n * b.n, a.d * b.d)
RDiv(a, b) == Rat(a.n * b.d, a.d * b.n)
RLt(a, b) == a.n * b.d < b.n * a.d
RLe(a, b) == a.n * b.d <= b.n * a.d
RMax(a, b) == IF RLt(a, b) THEN b ELSE a
RClamp(x, lo, hi) == IF RLt(x, lo) THEN lo ELSE IF RLt(hi, x) THEN hi ELSE x

----------------------------------------------------------------------------
VARIABLES
  \* struct Handle (nvspFrontend.cpp:13-23)
  packDir, pack, packLoaded, langTag, lastError, streamHasSpeech,
  \* history of the calls made on the handle (sequential callers)
  lastCall, hist,
  \* concurrent callers of one handle
  mu, pc, local, cbLog, started,
  \* a pass run over a token vector
  tokens, ctx, passPc, passLog,
  \* the speed handling of queueIPA and runBoundarySmoothing, as functions
  speedIn, speedOut

handleVars == <<packDir, pack, packLoaded, langTag, lastError, streamHasSpeech>>
histVars == <<lastCall, hist>>
threadVars == <<mu, pc, local, cbLog, started>>
passVars == <<tokens, ctx, passPc, passLog>>
speedVars == <<speedIn, speedOut>>
vars == <<handleVars, histVars, threadVars, passVars, speedVars>>

----------------------------------------------------------------------------
(* The front-end handle: inputs of the C API and results of the            *)
(* collaborators declared in pack.h and ipa_engine.h.                      *)

\* create(packDirUtf8): a null argument is stored as the empty string.
PackDirs == {"packs"}

\* langTagUtf8 of setLanguage; "NULL" is the null pointer.
LangArgs == {"NULL", "en"}

\* ipaUtf8 of queueIPA; "NULL" is the null pointer, "#" holds only symbols
\* no phoneme is defined for.
IpaArgs == {"NULL", "", "a", "kaka", "#"}

\* speed of queueIPA; CallSpeeds are the ones used in call sequences.
Speeds == {R(-1), R(0), Rat(1, 2), R(1), R(2)}
CallSpeeds == {R(0), R(2)}

\* userIndexBase of queueIPA.
UserIndexBases == {0}

\* settings.segmentBoundaryGapMs / segmentBoundaryFadeMs of a language pack.
SegmentGaps == {R(0), R(20)}
SegmentFades == {R(-4), R(4), R(40)}

\* Messages a collaborator leaves in its err argument ("" = none).
ErrTexts == {"", "pack error"}

\* A default-constructed PackSet (Handle::pack before any load).
EmptyPack == [lang |-> "<none>", gap |-> R(0), fade |-> R(0)]

\* loadPackSet(packDir, lang, pack, err): the outcomes the pack directory can
\* give: failure with a message (possibly empty), or a pack set for lang.
LoadPackSet(dir, lang) ==
  [ok : {FALSE}, err : ErrTexts, pack : {EmptyPack}]
    \cup [ok : {TRUE}, err : {""},
          pack : [lang : {lang}, gap : SegmentGaps, fade : SegmentFades]]

\* No loadPackSet call was made.
NoLoad == [ok |-> TRUE, err |-> "", pack |-> EmptyPack]

\* normalizeLangTag(lang): a function of the tag (pack.h), left uninterpreted.
normalizeLangTag(lang) == <<"normalized", lang>>

\* Token vectors the tokenizer and the passes produce for an IPA string:
\* one token per phoneme, plus the closure gap before a stop.  MaxTokens is
\* the length of the longest utterance ("kaka", cut to that many tokens).
MaxTokens == 3
VowelTok == [silence |-> FALSE, durationMs |-> R(60), fadeMs |-> R(10)]
StopTok == [silence |-> FALSE, durationMs |-> R(6), fadeMs |-> R(1)]
GapTok == [silence |-> TRUE, durationMs |-> R(40), fadeMs |-> R(10)]
IpaTokens(ipa) ==
  CASE ipa = "a" -> <<VowelTok>>
    [] ipa = "kaka" ->
         [i \in 1..MaxTokens |-> <<GapTok, StopTok, VowelTok>>[((i - 1) % 3) + 1]]
    [] OTHER -> << >>

\* convertIpaToTokens(pack, ipa, speed, ...): success with the token vector,
\* or the failure of the tokenizer or of a pass with a message (possibly
\* empty), which leaves in the vector what was built before the failure.
\* An empty string has nothing that can fail.
convertIpaToTokens(pk, ipa, speed) ==
  {[ok |-> TRUE, err |-> "", tokens |-> IpaTokens(ipa)]}
    \cup (IF ipa = "" THEN {}
          ELSE [ok : {FALSE}, err : ErrTexts, tokens : {<< >>, IpaTokens(ipa)}])

\* convertIpaToTokens was not reached.
NoConv == [ok |-> FALSE, err |-> "", tokens |-> << >>]

\* emitFrames(pack, tokens, userIndexBase, cb, userData): one callback per
\* token, in order; a silence token is delivered as a null frame.
emitFrames(toks, userIndexBase, cbNull) ==
  IF cbNull THEN << >>
  ELSE [i \in 1..Len(toks) |->
          [kind |-> "token",
           body |-> IF toks[i].silence THEN "null" ELSE "frame",
           minDurationMs |-> toks[i].durationMs,
           fadeMs |-> toks[i].fadeMs,
           userIndex |-> userIndexBase + (i - 1)]]

\* nvspFrontend.cpp:29-32
setError(msg) == msg

\* nvspFrontend.cpp:131
EffSpeedNegativeOnly(speed) == IF RLt(speed, R(0)) THEN R(1) ELSE speed
effSpeed(speed) == IF RLe(speed, R(0)) THEN R(1) ELSE speed

\* nvspFrontend.cpp:132-138: the callbacks of the inter-segment gap.
gapFrames(pk, hasSpeech, toks, speed, cbNull) ==
  IF ~cbNull /\ hasSpeech /\ toks # << >>
  THEN LET gap == pk.gap
           fade == pk.fade
       IN IF RLt(R(0), gap)
          THEN <<[kind |-> "gap",
                  body |-> "null",
                  minDurationMs |-> RDiv(gap, effSpeed(speed)),
                  fadeMs |-> IF RLt(R(0), fade)
                             THEN RDiv(fade, effSpeed(speed)) ELSE R(0),
                  userIndex |-> -1]>>
          ELSE << >>
  ELSE << >>

----------------------------------------------------------------------------
(* The calls on a handle, each as one step: a call holds Handle::mu from   *)
(* its first access of the handle to its return.                           *)

\* What a call left behind for its caller: its return value, the callbacks
\* it made, and what it did on the way (entry = the handle as it found it).
CallRecord(op, ret, result, loads, convRan, convOk, nTokens, speed, cbNull, frames) ==
  [op |-> op, ret |-> ret, result |-> result, loads |-> loads,
   convRan |-> convRan, convOk |-> convOk, nTokens |-> nTokens,
   speed |-> speed, cbNull |-> cbNull, frames |-> frames,
   entry |-> [packLoaded |-> packLoaded,
              streamHasSpeech |-> streamHasSpeech,
              pack |-> pack,
              langTag |-> langTag,
              hist |-> hist]]

NoCall == [op |-> "create"]

\* Facts about the calls made so far, updated by every producer call.
\* sinceLang counts the queueIPA calls since the last successful setLanguage
\* (-1 before any, at most 2); speechQueued and emitted say whether, since
\* creation or the last successful setLanguage, a successful queueIPA call
\* had tokens to speak, and whether one delivered a frame to a callback.
HistAfter(op, ret, loadedOk, cbNull, frames, nTokens) ==
  LET reset == op = "setLanguage" /\ ret = 1
  IN [queueCalls |-> IF op = "queueIPA" /\ hist.queueCalls < 2
                     THEN hist.queueCalls + 1 ELSE hist.queueCalls,
      loadedOk |-> hist.loadedOk \/ loadedOk,
      plain |-> hist.plain /\ op = "queueIPA" /\ ~cbNull,
      spoken |-> hist.spoken \/ (op = "queueIPA" /\ frames # << >>),
      failed |-> hist.failed \/ ret = 0,
      lastRet |-> ret,
      lastOp |-> op,
      sinceLang |-> IF reset THEN 0
                    ELSE IF op = "queueIPA" /\ hist.sinceLang \in {0, 1}
                    THEN hist.sinceLang + 1 ELSE hist.sinceLang,
      speechQueued |-> IF reset THEN FALSE
                       ELSE hist.speechQueued
                              \/ (op = "queueIPA" /\ ret = 1 /\ nTokens > 0),
      emitted |-> IF reset THEN FALSE
                  ELSE hist.emitted
                         \/ (op = "queueIPA" /\ ret = 1 /\ frames # << >>)]

\* nvspFrontend.cpp:38-48
InitHandle ==
  /\ packDir \in PackDirs
  /\ pack = EmptyPack
  /\ packLoaded = FALSE
  /\ langTag = ""
  /\ lastError = ""
  /\ streamHasSpeech = FALSE

InitHist ==
  /\ lastCall = NoCall
  /\ hist = [queueCalls |-> 0, loadedOk |-> FALSE, plain |-> TRUE,
             spoken |-> FALSE, failed |-> FALSE, lastRet |-> -1,
             lastOp |-> "create", sinceLang |-> -1, speechQueued |-> FALSE,
             emitted |-> FALSE]

\* nvspFrontend.cpp:69, 104, 122: err.empty() ? "<fallback>" : err
ErrorTextAsGiven(err, fallback) == err
errorText(err, fallback) == IF err = "" THEN fallback ELSE err

\* nvspFrontend.cpp:68-77: streamHasSpeech when setLanguage returns: kept by
\* the return at line 70, reset at line 77.
SpeechAfterLanguageKept(hasSpeech, load) == hasSpeech
SpeechAfterLanguageReset(hasSpeech, load) == FALSE
speechAfterLanguage(hasSpeech, load) == IF load.ok THEN FALSE ELSE hasSpeech

\* nvspFrontend.cpp:56-79
setLanguage(langArg, load) ==
  LET lang == IF langArg = "NULL" THEN "" ELSE langArg
  IN IF ~load.ok
     THEN /\ lastError' = setError(errorText(load.err, "Failed to load pack set"))
          /\ streamHasSpeech' = speechAfterLanguage(streamHasSpeech, load)
          /\ UNCHANGED <<packDir, pack, packLoaded, langTag>>
          /\ lastCall' = CallRecord("setLanguage", 0, "", 1, FALSE, FALSE, 0,
                                    R(1), TRUE, << >>)
          /\ hist' = HistAfter("setLanguage", 0, FALSE, TRUE, << >>, 0)
     ELSE /\ pack' = load.pack
          /\ packLoaded' = TRUE
          /\ langTag' = normalizeLangTag(lang)
          /\ streamHasSpeech' = speechAfterLanguage(streamHasSpeech, load)
          /\ lastError' = ""
          /\ UNCHANGED packDir
          /\ lastCall' = CallRecord("setLanguage", 1, "", 1, FALSE, FALSE, 0,
                                    R(1), TRUE, << >>)
          /\ hist' = HistAfter("setLanguage", 1, TRUE, TRUE, << >>, 0)

SetLanguage ==
  \E langArg \in LangArgs :
    \E load \in LoadPackSet(packDir, IF langArg = "NULL" THEN "" ELSE langArg) :
      setLanguage(langArg, load)

\* nvspFrontend.cpp:99: whether the call has to load the default pack.
NeedsLoadAlways(loaded) == TRUE
needsLoad(loaded) == ~loaded

\* nvspFrontend.cpp:121-140: the callbacks of a call that reached the
\* conversion: none when it failed (return 0 at line 123), else the gap and
\* the frames of the tokens.
callFrames(pk, hasSpeech, conv, speed, userIndexBase, cbNull) ==
  IF ~conv.ok THEN << >>
  ELSE gapFrames(pk, hasSpeech, conv.tokens, speed, cbNull)
         \o emitFrames(conv.tokens, userIndexBase, cbNull)

\* nvspFrontend.cpp:121-141: streamHasSpeech when the call returns.
SpeechAfterUnchanged(hasSpeech, conv) == hasSpeech
SpeechAfterAlways(hasSpeech, conv) == conv.ok \/ hasSpeech
SpeechAfterFailure(hasSpeech, conv) ==
  IF conv.tokens # << >> THEN TRUE ELSE hasSpeech
speechAfter(hasSpeech, conv) ==
  IF conv.ok /\ conv.tokens # << >> THEN TRUE ELSE hasSpeech

\* nvspFrontend.cpp:81-143
queueIPA(ipaArg, speed, userIndexBase, cbNull, load, conv) ==
  LET needLoad == needsLoad(packLoaded)
      loads == IF needLoad THEN 1 ELSE 0
      pack1 == IF needLoad THEN load.pack ELSE pack
      ret == IF conv.ok THEN 1 ELSE 0
      frames == callFrames(pack1, streamHasSpeech, conv, speed, userIndexBase,
                           cbNull)
  IN \/ /\ needLoad /\ ~load.ok
        /\ lastError' = setError(errorText(load.err,
                                   "No language loaded and default load failed"))
        /\ UNCHANGED <<packDir, pack, packLoaded, langTag, streamHasSpeech>>
        /\ lastCall' = CallRecord("queueIPA", 0, "", loads, FALSE, FALSE, 0,
                                  speed, cbNull, << >>)
        /\ hist' = HistAfter("queueIPA", 0, FALSE, cbNull, << >>, 0)
     \/ /\ ~needLoad \/ load.ok
        /\ pack' = pack1
        /\ packLoaded' = TRUE
        /\ langTag' = IF needLoad THEN "default" ELSE langTag
        /\ lastError' = IF conv.ok THEN ""
                        ELSE setError(errorText(conv.err, "IPA conversion failed"))
        /\ streamHasSpeech' = speechAfter(streamHasSpeech, conv)
        /\ UNCHANGED packDir
        /\ lastCall' = CallRecord("queueIPA", ret, "", loads, TRUE, conv.ok,
                                  IF conv.ok THEN Len(conv.tokens) ELSE 0,
                                  speed, cbNull, frames)
        /\ hist' = HistAfter("queueIPA", ret, needLoad, cbNull, frames,
                             IF conv.ok THEN Len(conv.tokens) ELSE 0)

QueueIPA ==
  \E ipaArg \in IpaArgs, speed \in CallSpeeds, userIndexBase \in UserIndexBases,
     cbNull \in BOOLEAN :
    \E load \in (IF needsLoad(packLoaded) THEN LoadPackSet(packDir, "default")
                 ELSE {NoLoad}) :
      \E conv \in (IF ~load.ok THEN {NoConv}
                   ELSE convertIpaToTokens(IF needsLoad(packLoaded) THEN load.pack
                                           ELSE pack,
                                           IF ipaArg = "NULL" THEN "" ELSE ipaArg,
                                           speed)) :
        queueIPA(ipaArg, speed, userIndexBase, cbNull, load, conv)

\* nvspFrontend.cpp:145-151
GetLastError ==
  /\ lastCall' = CallRecord("getLastError", -1, lastError, 0, FALSE, FALSE, 0,
                            R(1), TRUE, << >>)
  /\ UNCHANGED <<handleVars, hist>>

----------------------------------------------------------------------------
(* Variables a specification does not use stay at these values.            *)

IdleThreads ==
  /\ mu = 0 /\ pc = << >> /\ local = << >> /\ cbLog = << >> /\ started = 0
IdlePass ==
  /\ tokens = << >> /\ ctx = << >> /\ passPc = "idle" /\ passLog = << >>
IdleSpeed ==
  /\ speedIn = << >> /\ speedOut = << >>

\* One handle used by one caller at a time.
Init == InitHandle /\ InitHist /\ IdleThreads /\ IdlePass /\ IdleSpeed

Next ==
  \/ SetLanguage /\ UNCHANGED <<threadVars, passVars, speedVars>>
  \/ QueueIPA /\ UNCHANGED <<threadVars, passVars, speedVars>>
  \/ GetLastError /\ UNCHANGED <<threadVars, passVars, speedVars>>

Spec == Init /\ [][Next]_vars

----------------------------------------------------------------------------
(* Properties of the calls on a handle (specification Spec).               *)

GapIndexes(frames) == {i \in DOMAIN frames : frames[i].kind = "gap"}

\* C1: in a sequence of queueIPA calls with a non-null callback and a pack
\* whose segmentBoundaryGapMs is positive, a call that emits frames delivers
\* exactly one gap callback, as its first callback, when an earlier call
\* emitted frames, and no gap callback when none did.
C1_GapBeforeLaterSpeech ==
  (/\ lastCall.op = "queueIPA"
   /\ hist.plain
   /\ RLt(R(0), pack.gap)
   /\ lastCall.frames # << >>)
  => GapIndexes(lastCall.frames) =
       (IF lastCall.entry.hist.spoken THEN {1} ELSE {})

C1_Witness ==
  /\ lastCall.op = "queueIPA"
  /\ hist.plain
  /\ RLt(R(0), pack.gap)
  /\ lastCall.entry.hist.spoken
  /\ Len(lastCall.frames) > 1
  /\ lastCall.frames[1].kind = "gap"
  /\ lastCall.frames[2].kind = "token"

\* C2: getLastError called right after a setLanguage or queueIPA call
\* returns a non-empty message when that call returned 0 and the empty
\* string when it returned 1.
C2_LastErrorMatchesReturn ==
  lastCall.op = "getLastError"
  => /\ hist.lastRet = 0 => lastCall.result # ""
     /\ hist.lastRet = 1 => lastCall.result = ""

C2_Witness ==
  /\ lastCall.op = "getLastError"
  /\ hist.failed
  /\ hist.lastRet = 1
  /\ lastCall.result = ""

\* C4: the gap frame a queueIPA call delivers has non-negative fadeMs and
\* minDurationMs, and fadeMs <= minDurationMs.
C4_GapFrameFadeWithinDuration ==
  lastCall.op = "queueIPA"
  => \A i \in GapIndexes(lastCall.frames) :
       /\ RLe(R(0), lastCall.frames[i].fadeMs)
       /\ RLe(R(0), lastCall.frames[i].minDurationMs)
       /\ RLe(lastCall.frames[i].fadeMs, lastCall.frames[i].minDurationMs)

\* C6: a queueIPA call whose input yields no tokens makes no callback,
\* returns 1 with an empty last error and leaves streamHasSpeech as it was.
C6_EmptyCallIsSilent ==
  (lastCall.op = "queueIPA" /\ lastCall.convOk /\ lastCall.nTokens = 0)
  => /\ lastCall.frames = << >>
     /\ lastCall.ret = 1
     /\ lastError = ""
     /\ streamHasSpeech = lastCall.entry.streamHasSpeech

C6_Witness ==
  /\ lastCall.op = "queueIPA" /\ lastCall.convOk /\ lastCall.nTokens = 0
  /\ ~lastCall.cbNull
  /\ lastCall.entry.streamHasSpeech
  /\ RLt(R(0), pack.gap)
  /\ streamHasSpeech

\* C7: a queueIPA call whose conversion fails returns 0, makes no callback
\* and leaves streamHasSpeech as it was.
C7_FailedConversionAborts ==
  (lastCall.op = "queueIPA" /\ lastCall.convRan /\ ~lastCall.convOk)
  => /\ lastCall.ret = 0
     /\ lastCall.frames = << >>
     /\ streamHasSpeech = lastCall.entry.streamHasSpeech

C7_Witness ==
  /\ lastCall.op = "queueIPA" /\ lastCall.convRan /\ ~lastCall.convOk
  /\ ~lastCall.cbNull
  /\ lastCall.entry.streamHasSpeech
  /\ RLt(R(0), pack.gap)
  /\ lastCall.ret = 0
  /\ streamHasSpeech

\* C9 as claimed: no queueIPA call after the first one on the handle
\* invokes loadPackSet.
C9_OnlyFirstCallLoads ==
  (lastCall.op = "queueIPA" /\ lastCall.entry.hist.queueCalls >= 1)
  => lastCall.loads = 0

\* C9, amended: no queueIPA call made after a call (setLanguage or queueIPA)
\* that loaded a pack successfully invokes loadPackSet.
C9_NoLoadAfterSuccessfulLoad ==
  (lastCall.op = "queueIPA" /\ lastCall.entry.hist.loadedOk)
  => lastCall.loads = 0

C9_Witness ==
  /\ lastCall.op = "queueIPA"
  /\ lastCall.entry.hist.loadedOk
  /\ lastCall.entry.hist.failed
  /\ lastCall.entry.hist.queueCalls >= 1
  /\ lastCall.loads = 0

\* C16: streamHasSpeech is true only if, since creation or the last
\* successful setLanguage, a successful queueIPA call delivered at least
\* one frame to a frame callback; a call that delivered none (one made
\* with a null callback) never turns the flag on.
C16_SpeechFlagMeansFramesEmitted == streamHasSpeech => hist.emitted

\* C17: a successful setLanguage resets the stream: the first queueIPA
\* call after it delivers no gap frame, whatever was spoken before, and a
\* call delivers a gap frame only when an earlier queueIPA call since the
\* language change had tokens to speak.
C17_LanguageChangeResetsStream ==
  lastCall.op = "queueIPA"
  => /\ lastCall.entry.hist.sinceLang = 0 => GapIndexes(lastCall.frames) = {}
     /\ GapIndexes(lastCall.frames) # {} => lastCall.entry.hist.speechQueued

C17_Witness ==
  /\ lastCall.op = "queueIPA"
  /\ lastCall.entry.hist.sinceLang = 0
  /\ lastCall.entry.hist.spoken
  /\ RLt(R(0), pack.gap)
  /\ ~lastCall.cbNull
  /\ lastCall.frames # << >>
  /\ lastCall.frames[1].kind = "token"
  /\ streamHasSpeech

\* C18: a setLanguage call whose pack load fails changes nothing on the
\* handle except lastError: pack, packLoaded, langTag and streamHasSpeech
\* keep their values; the queueIPA call that follows it uses the pack
\* installed before (it loads none when one was installed) and still
\* delivers the pending gap frame first.
C18_FailedSetLanguageKeepsHandle ==
  /\ (lastCall.op = "setLanguage" /\ lastCall.ret = 0)
       => /\ pack = lastCall.entry.pack
          /\ packLoaded = lastCall.entry.packLoaded
          /\ langTag = lastCall.entry.langTag
          /\ streamHasSpeech = lastCall.entry.streamHasSpeech
          /\ lastError # ""
  /\ (/\ lastCall.op = "queueIPA"
      /\ lastCall.entry.hist.lastOp = "setLanguage"
      /\ lastCall.entry.hist.lastRet = 0)
       => /\ lastCall.entry.hist.loadedOk
               => /\ lastCall.loads = 0
                  /\ pack = lastCall.entry.pack
                  /\ langTag = lastCall.entry.langTag
          /\ (/\ lastCall.entry.hist.speechQueued
              /\ ~lastCall.cbNull
              /\ lastCall.convOk /\ lastCall.nTokens > 0
              /\ RLt(R(0), pack.gap))
               => GapIndexes(lastCall.frames) = {1}

C18_Witness ==
  /\ lastCall.op = "queueIPA"
  /\ lastCall.entry.hist.lastOp = "setLanguage"
  /\ lastCall.entry.hist.lastRet = 0
  /\ lastCall.entry.hist.speechQueued
  /\ lastCall.entry.pack.lang = "en"
  /\ pack = lastCall.entry.pack
  /\ lastCall.loads = 0
  /\ lastCall.frames # << >>
  /\ lastCall.frames[1].kind = "gap"

----------------------------------------------------------------------------
(* Several threads calling setLanguage and queueIPA on one handle.  Each   *)
(* call takes Handle::mu with a std::lock_guard (nvspFrontend.cpp:61, 96)  *)
(* and releases it when it returns; the steps below are the statements of  *)
(* the calls, one callback per step.                                       *)

NumThreads == 2
MaxThreadCalls == 3
Threads == 1..NumThreads

\* Arguments and collaborator outcomes used by the threads.
ThreadIpaArgs == {"", "kaka"}
ThreadSpeed == R(1)
ThreadLoads(lang) ==
  {o \in LoadPackSet(packDir, lang) :
     IF o.ok THEN o.pack.gap = R(20) /\ o.pack.fade = R(4) ELSE o.err = ""}
ThreadConvs(ipa) ==
  {c \in convertIpaToTokens(pack, ipa, ThreadSpeed) :
     c.ok \/ (c.err = "" /\ c.tokens = << >>)}

IdleLocal ==
  [id |-> 0, op |-> "none", arg |-> "", conv |-> NoConv, todo |-> << >>,
   seen |-> FALSE]

InitThreads ==
  /\ mu = 0
  /\ pc = [t \in Threads |-> "idle"]
  /\ local = [t \in Threads |-> IdleLocal]
  /\ cbLog = << >>
  /\ started = 0

\* std::mutex::lock: the mutex is taken only when no thread holds it.
CanLockAlways(m) == TRUE
canLock(m) == m = 0

\* The frame callback, as the host sees it: which call delivered what.
Delivered(id, frames) == [i \in DOMAIN frames |-> [call |-> id, kind |-> frames[i].kind]]

\* A thread enters setLanguage or queueIPA with a non-null handle.
TCall(t) ==
  /\ pc[t] = "idle"
  /\ started < MaxThreadCalls
  /\ \E op \in {"setLanguage", "queueIPA"} :
       \E arg \in (IF op = "queueIPA" THEN ThreadIpaArgs ELSE {"en"}) :
         local' = [local EXCEPT ![t] =
                     [IdleLocal EXCEPT !.id = started + 1, !.op = op, !.arg = arg]]
  /\ started' = started + 1
  /\ pc' = [pc EXCEPT ![t] = "lock"]
  /\ UNCHANGED <<handleVars, mu, cbLog>>

\* nvspFrontend.cpp:61-63 and 96-97: take the lock, clear the last error.
TLock(t) ==
  /\ pc[t] = "lock"
  /\ canLock(mu)
  /\ mu' = t
  /\ lastError' = ""
  /\ pc' = [pc EXCEPT ![t] = IF local[t].op = "queueIPA" THEN "q_load" ELSE "s_load"]
  /\ UNCHANGED <<packDir, pack, packLoaded, langTag, streamHasSpeech, local,
                 cbLog, started>>

\* Return from a call: the lock_guard releases the mutex.
TReturn(t) ==
  /\ mu' = 0
  /\ pc' = [pc EXCEPT ![t] = "idle"]
  /\ local' = [local EXCEPT ![t] = IdleLocal]

\* nvspFrontend.cpp:64-78
TSetLanguage(t) ==
  /\ pc[t] = "s_load"
  /\ \E load \in ThreadLoads(local[t].arg) :
       IF ~load.ok
       THEN /\ lastError' = setError(errorText(load.err, "Failed to load pack set"))
            /\ streamHasSpeech' = speechAfterLanguage(streamHasSpeech, load)
            /\ UNCHANGED <<pack, packLoaded, langTag>>
       ELSE /\ pack' = load.pack
            /\ packLoaded' = TRUE
            /\ langTag' = normalizeLangTag(local[t].arg)
            /\ streamHasSpeech' = speechAfterLanguage(streamHasSpeech, load)
            /\ UNCHANGED lastError
  /\ TReturn(t)
  /\ UNCHANGED <<packDir, cbLog, started>>

\* nvspFrontend.cpp:99-110
TLoad(t) ==
  /\ pc[t] = "q_load"
  /\ IF ~needsLoad(packLoaded)
     THEN /\ pc' = [pc EXCEPT ![t] = "q_convert"]
          /\ UNCHANGED <<handleVars, mu, local>>
     ELSE \E load \in ThreadLoads("default") :
            IF ~load.ok
            THEN /\ lastError' = setError(errorText(load.err,
                                   "No language loaded and default load failed"))
                 /\ TReturn(t)
                 /\ UNCHANGED <<packDir, pack, packLoaded, langTag, streamHasSpeech>>
            ELSE /\ pack' = load.pack
                 /\ packLoaded' = TRUE
                 /\ langTag' = "default"
                 /\ pc' = [pc EXCEPT ![t] = "q_convert"]
                 /\ UNCHANGED <<packDir, lastError, streamHasSpeech, mu, local>>
  /\ UNCHANGED <<cbLog, started>>

\* nvspFrontend.cpp:112-124
TConvert(t) ==
  /\ pc[t] = "q_convert"
  /\ \E conv \in ThreadConvs(local[t].arg) :
       IF ~conv.ok
       THEN /\ lastError' = setError(errorText(conv.err, "IPA conversion failed"))
            /\ TReturn(t)
       ELSE /\ local' = [local EXCEPT ![t].conv = conv]
            /\ pc' = [pc EXCEPT ![t] = "q_gap"]
            /\ UNCHANGED <<lastError, mu>>
  /\ UNCHANGED <<packDir, pack, packLoaded, langTag, streamHasSpeech, cbLog, started>>

\* nvspFrontend.cpp:131-138: read streamHasSpeech, deliver the gap.
TGap(t) ==
  /\ pc[t] = "q_gap"
  /\ cbLog' = cbLog \o Delivered(local[t].id,
                         gapFrames(pack, streamHasSpeech, local[t].conv.tokens,
                                   ThreadSpeed, FALSE))
  /\ local' = [local EXCEPT ![t].seen = streamHasSpeech,
                            ![t].todo = emitFrames(local[t].conv.tokens, 0, FALSE)]
  /\ pc' = [pc EXCEPT ![t] = "q_emit"]
  /\ UNCHANGED <<handleVars, mu, started>>

\* nvspFrontend.cpp:140: emitFrames delivers the next token's frame.
TEmit(t) ==
  /\ pc[t] = "q_emit"
  /\ local[t].todo # << >>
  /\ cbLog' = cbLog \o Delivered(local[t].id, <<Head(local[t].todo)>>)
  /\ local' = [local EXCEPT ![t].todo = Tail(local[t].todo)]
  /\ UNCHANGED <<handleVars, mu, pc, started>>

\* nvspFrontend.cpp:141-142
TFinish(t) ==
  /\ pc[t] = "q_emit"
  /\ local[t].todo = << >>
  /\ streamHasSpeech' = speechAfter(streamHasSpeech, local[t].conv)
  /\ TReturn(t)
  /\ UNCHANGED <<packDir, pack, packLoaded, langTag, lastError, cbLog, started>>

InitConc == InitHandle /\ InitHist /\ InitThreads /\ IdlePass /\ IdleSpeed

ConcOthersIdle == UNCHANGED <<histVars, passVars, speedVars>>

NextConc ==
  \/ \E t \in Threads : TCall(t) /\ ConcOthersIdle
  \/ \E t \in Threads : TLock(t) /\ ConcOthersIdle
  \/ \E t \in Threads : TSetLanguage(t) /\ ConcOthersIdle
  \/ \E t \in Threads : TLoad(t) /\ ConcOthersIdle
  \/ \E t \in Threads : TConvert(t) /\ ConcOthersIdle
  \/ \E t \in Threads : TGap(t) /\ ConcOthersIdle
  \/ \E t \in Threads : TEmit(t) /\ ConcOthersIdle
  \/ \E t \in Threads : TFinish(t) /\ ConcOthersIdle

SpecConc == InitConc /\ [][NextConc]_vars

\* C8: concurrent calls on one handle are serialized: the callbacks of one
\* queueIPA call are contiguous in the order the host receives them, at most
\* one call is between its lock and its return, and streamHasSpeech does not
\* change between a call's read of it and its own write.
InCall(t) == pc[t] \notin {"idle", "lock"}

C8_CallsSerialized ==
  /\ \A i, j, k \in DOMAIN cbLog :
       (i < j /\ j < k /\ cbLog[i].call = cbLog[k].call)
         => cbLog[j].call = cbLog[i].call
  /\ \A t, u \in Threads : (InCall(t) /\ InCall(u)) => t = u
  /\ \A t \in Threads : pc[t] = "q_emit" => streamHasSpeech = local[t].seen

C8_Witness ==
  \E t, u \in Threads :
    /\ t # u
    /\ pc[t] = "lock"
    /\ pc[u] = "q_emit"
    /\ local[u].todo # << >>
    /\ \E i, j \in DOMAIN cbLog :
         /\ cbLog[i].call # local[u].id
         /\ cbLog[j] = [call |-> local[u].id, kind |-> "gap"]

----------------------------------------------------------------------------
(* Tokens and phoneme definitions, as the passes read them.                *)

FieldIds == {"fricationAmplitude", "cf2", "pf2", "cf3", "pf3"}

\* A field array with the given entries, the others 0.0.
Fields(f) == [id \in FieldIds |-> IF id \in DOMAIN f THEN f[id] ELSE R(0)]

\* A PhonemeDef: key, flags, the fields it sets (setMask) and their values.
Def(key, flags, f) ==
  [key |-> key, flags |-> flags, setMask |-> DOMAIN f, field |-> Fields(f)]

Formants(f2, f3) ==
  [id \in {"cf2", "pf2", "cf3", "pf3"} |->
     IF id \in {"cf2", "pf2"} THEN R(f2) ELSE R(f3)]

\* The phoneme table of a pack (phonemes.yaml).  "null" is no definition
\* (Token::def == nullptr); "tS" is the affricate t͡ʃ, "N" the velar ŋ.
PhonemeDefs ==
  [key \in {"a", "i", "j", "w", "k", "t", "s", "m", "h", "tS"} |->
     CASE key = "a" -> Def(key, {"kIsVowel"}, Formants(1200, 2600))
       [] key = "i" -> Def(key, {"kIsVowel"}, Formants(2200, 3000))
       [] key = "j" -> Def(key, {"kIsSemivowel"}, Formants(2100, 2900))
       [] key = "w" -> Def(key, {"kIsSemivowel"}, Formants(800, 2400))
       [] key = "k" -> Def(key, {"kIsStop"}, [id \in {"pf2"} |-> R(1800)])
       [] key = "t" -> Def(key, {"kIsStop"}, [id \in {"pf2"} |-> R(1700)])
       [] key = "s" -> Def(key, {}, [id \in {"fricationAmplitude", "pf2"} |->
                                        IF id = "pf2" THEN R(1600) ELSE R(1)])
       [] key = "m" -> Def(key, {"kIsNasal"}, Formants(1000, 2400))
       [] key = "h" -> Def(key, {}, [id \in {"fricationAmplitude"} |-> R(0)])
       [] key = "tS" -> Def(key, {"kIsAfricate"},
                            [id \in {"fricationAmplitude"} |-> R(1)])]

HasDef(t) == t.def # "null"
DefOf(t) == PhonemeDefs[t.def]

\* A Token with no field override and no marker set.
Tok(key, dur, fade) ==
  [def |-> key, silence |-> FALSE, wordStart |-> FALSE,
   durationMs |-> R(dur), fadeMs |-> R(fade),
   preStopGap |-> FALSE, clusterGap |-> FALSE, vowelHiatusGap |-> FALSE,
   postStopAspiration |-> FALSE,
   setMask |-> {}, field |-> Fields(<< >>)]

\* A silence token (no definition).
Sil(dur) == [Tok("null", dur, 0) EXCEPT !.silence = TRUE]

----------------------------------------------------------------------------
(* passes/boundary_smoothing.cpp                                           *)

\* boundary_smoothing.cpp:9-11
tokIsSilenceOrMissing(t) == t.silence \/ ~HasDef(t)

\* boundary_smoothing.cpp:13-15
tokIsVowel(t) == HasDef(t) /\ "kIsVowel" \in DefOf(t).flags

\* boundary_smoothing.cpp:17-19
tokIsSemivowel(t) == HasDef(t) /\ "kIsSemivowel" \in DefOf(t).flags

\* boundary_smoothing.cpp:21-23
tokIsVowelLike(t) == tokIsVowel(t) \/ tokIsSemivowel(t)

\* boundary_smoothing.cpp:25-31
tokIsStopLike(t) ==
  IF ~HasDef(t) \/ t.silence THEN FALSE
  ELSE IF t.postStopAspiration THEN TRUE
  ELSE "kIsStop" \in DefOf(t).flags \/ "kIsAfricate" \in DefOf(t).flags

\* boundary_smoothing.cpp:33-43
tokIsFricativeLike(t) ==
  IF ~HasDef(t) \/ t.silence THEN FALSE
  ELSE LET v == IF "fricationAmplitude" \in t.setMask
                THEN t.field["fricationAmplitude"]
                ELSE IF "fricationAmplitude" \in DefOf(t).setMask
                THEN DefOf(t).field["fricationAmplitude"]
                ELSE R(0)
       IN RLt(R(0), v)

\* boundary_smoothing.cpp:45-49
clampFadeToDuration(t) ==
  LET t1 == IF RLt(t.durationMs, R(0)) THEN [t EXCEPT !.durationMs = R(0)] ELSE t
      t2 == IF RLt(t1.fadeMs, R(0)) THEN [t1 EXCEPT !.fadeMs = R(0)] ELSE t1
  IN IF RLt(t2.durationMs, t2.fadeMs) THEN [t2 EXCEPT !.fadeMs = t2.durationMs]
     ELSE t2

\* boundary_smoothing.cpp:62-66: the silence the search does not reach
\* across.
IsLongPauseFromLimit(t, maxSkipSilenceMs) ==
  /\ t.silence
  /\ ~(t.preStopGap \/ t.clusterGap \/ t.vowelHiatusGap)
  /\ RLe(maxSkipSilenceMs, t.durationMs)
isLongPause(t, maxSkipSilenceMs) ==
  /\ t.silence
  /\ ~(t.preStopGap \/ t.clusterGap \/ t.vowelHiatusGap)
  /\ RLt(maxSkipSilenceMs, t.durationMs)

\* boundary_smoothing.cpp:51-70.  Indexes are 1-based here: the result is
\* the index of the token found, or 0 where the code returns -1.
RECURSIVE findPrevReal(_, _, _)
findPrevReal(toks, idxBefore, maxSkipSilenceMs) ==
  IF idxBefore < 1 THEN 0
  ELSE LET t == toks[idxBefore]
       IN IF ~tokIsSilenceOrMissing(t) THEN idxBefore
          ELSE IF isLongPause(t, maxSkipSilenceMs) THEN 0
          ELSE findPrevReal(toks, idxBefore - 1, maxSkipSilenceMs)

\* boundary_smoothing.cpp:88
maxSkipSilenceMs == R(60)

\* boundary_smoothing.cpp:82
smoothSpeed(speed) == IF RLt(R(0), speed) THEN speed ELSE R(1)

\* boundary_smoothing.cpp:83-85: the three minimum fades at this speed.
smoothFades(lang, speed) ==
  [v2s |-> RDiv(RMax(R(0), lang.boundarySmoothingVowelToStopFadeMs),
                smoothSpeed(speed)),
   s2v |-> RDiv(RMax(R(0), lang.boundarySmoothingStopToVowelFadeMs),
                smoothSpeed(speed)),
   v2f |-> RDiv(RMax(R(0), lang.boundarySmoothingVowelToFricFadeMs),
                smoothSpeed(speed))]

\* boundary_smoothing.cpp:93-120: the loop body for token i.
smoothToken(toks, i, m) ==
  LET cur == toks[i]
      prevIdx == findPrevReal(toks, i - 1, maxSkipSilenceMs)
      prev == toks[prevIdx]
      raised(f) == clampFadeToDuration([cur EXCEPT !.fadeMs = RMax(cur.fadeMs, f)])
  IN IF tokIsSilenceOrMissing(cur) THEN toks
     ELSE IF prevIdx < 1 THEN toks
     ELSE IF RLt(R(0), m.v2s) /\ tokIsVowelLike(prev) /\ tokIsStopLike(cur)
     THEN [toks EXCEPT ![i] = raised(m.v2s)]
     ELSE IF RLt(R(0), m.s2v) /\ tokIsStopLike(prev) /\ tokIsVowelLike(cur)
     THEN [toks EXCEPT ![i] = raised(m.s2v)]
     ELSE IF RLt(R(0), m.v2f) /\ tokIsVowelLike(prev) /\ tokIsFricativeLike(cur)
     THEN [toks EXCEPT ![i] = raised(m.v2f)]
     ELSE toks

\* boundary_smoothing.cpp:92: for (i = 0; i < tokens.size(); ++i)
RECURSIVE smoothLoop(_, _, _)
smoothLoop(toks, i, m) ==
  IF i > Len(toks) THEN toks
  ELSE smoothLoop(smoothToken(toks, i, m), i + 1, m)

\* boundary_smoothing.cpp:74-124
runBoundarySmoothing(c, toks) ==
  IF ~c.lang.boundarySmoothingEnabled THEN toks
  ELSE IF Len(toks) < 2 THEN toks
  ELSE smoothLoop(toks, 1, smoothFades(c.lang, c.speed))

----------------------------------------------------------------------------
(* The boundary-smoothing pass run on a token vector.                      *)

\* The longest token vector given to a pass.
MaxPassTokens == 3

\* All vectors over the tokens of alphabet, up to MaxPassTokens long.
Vectors(alphabet) ==
  UNION {[1..n -> alphabet] : n \in 0..MaxPassTokens}

\* Tokens as they may stand in the vector when the pass starts: phonemes of
\* each class with a fade below, above and equal to what the pass asks for,
\* silences around the 60 ms limit, inserted micro-gaps, a token without
\* definition.
SmoothTokens ==
  { Tok("a", 40, 10), Tok("a", 8, 20),
    Tok("t", 40, 10), Tok("t", 8, 2), Tok("t", -5, -2),
    Tok("s", 40, 10),
    Tok("tS", 40, 10),
    Tok("m", 40, 10),
    [Tok("h", 40, 10) EXCEPT !.postStopAspiration = TRUE],
    Tok("null", 40, 10),
    Sil(60), Sil(90),
    [Sil(90) EXCEPT !.preStopGap = TRUE],
    [Sil(90) EXCEPT !.clusterGap = TRUE],
    [Sil(90) EXCEPT !.vowelHiatusGap = TRUE] }

SmoothLang(enabled, v2s, s2v, v2f) ==
  [boundarySmoothingEnabled |-> enabled,
   boundarySmoothingVowelToStopFadeMs |-> R(v2s),
   boundarySmoothingStopToVowelFadeMs |-> R(s2v),
   boundarySmoothingVowelToFricFadeMs |-> R(v2f)]

\* PassContext: the speed of the call and the language settings.
SmoothContexts ==
  [speed : {R(0), R(2)},
   lang : {SmoothLang(TRUE, 12, 12, 12), SmoothLang(TRUE, -6, 0, 24),
           SmoothLang(TRUE, 12, 24, 48)}]
    \cup [speed : {R(1)}, lang : {SmoothLang(FALSE, 12, 12, 12)}]

InitSmooth ==
  /\ tokens \in Vectors(SmoothTokens)
  /\ ctx \in SmoothContexts
  /\ passPc = "smooth"
  /\ passLog = [entry |-> tokens]
  /\ InitHandle /\ InitHist /\ IdleThreads /\ IdleSpeed

RunBoundarySmoothing ==
  /\ passPc = "smooth"
  /\ tokens' = runBoundarySmoothing(ctx, tokens)
  /\ passPc' = "smoothed"
  /\ UNCHANGED <<ctx, passLog, handleVars, histVars, threadVars, speedVars>>

NextSmooth == RunBoundarySmoothing

SpecSmooth == InitSmooth /\ [][NextSmooth]_vars

\* C3: after runBoundarySmoothing every token has 0 <= fadeMs <= durationMs.
C3_FadeWithinDurationAfterPass ==
  passPc = "smoothed"
  => \A i \in DOMAIN tokens :
       /\ RLe(R(0), tokens[i].fadeMs)
       /\ RLe(tokens[i].fadeMs, tokens[i].durationMs)

\* The pass ran past its two early returns (boundary_smoothing.cpp:78-79).
SmoothActive ==
  /\ passPc = "smoothed"
  /\ ctx.lang.boundarySmoothingEnabled
  /\ Len(tokens) >= 2

\* A silence that is a real pause: not an inserted micro-gap and longer
\* than 60 ms.
RealPauseAt(k) ==
  LET t == passLog.entry[k]
  IN /\ t.silence
     /\ ~t.preStopGap /\ ~t.clusterGap /\ ~t.vowelHiatusGap
     /\ RLt(R(60), t.durationMs)

\* The nearest real (non-silence, defined) token before token i with no
\* real pause in between; 0 when there is none.
PrevReal(i) ==
  LET cands == {p \in 1..(i - 1) :
                  /\ ~tokIsSilenceOrMissing(passLog.entry[p])
                  /\ \A k \in (p + 1)..(i - 1) : ~RealPauseAt(k)}
  IN IF cands = {} THEN 0 ELSE CHOOSE p \in cands : \A q \in cands : q <= p

\* Token i left the pass with fadeMs >= min(m / speed, durationMs), for a
\* positive configured fade m (speed <= 0 counts as 1).
HasMinFade(i, m) ==
  LET sp == IF RLt(R(0), ctx.speed) THEN ctx.speed ELSE R(1)
      want == RDiv(m, sp)
      least == IF RLt(tokens[i].durationMs, want) THEN tokens[i].durationMs
               ELSE want
  IN RLt(R(0), m) => RLe(least, tokens[i].fadeMs)

\* C14: after runBoundarySmoothing (enabled, at least 2 tokens), for each
\* of the categories vowel->stop, stop->vowel and vowel->fricative with a
\* positive configured fade m, every non-silence token that with its
\* nearest preceding real token matches the category has fadeMs >=
\* min(m / speed, durationMs); a token both stop-like and fricative-like
\* after a vowel has at least the vowel->fricative minimum.
C14_EveryCategoryMinimumHolds ==
  SmoothActive
  => \A i \in DOMAIN tokens :
       (~tokIsSilenceOrMissing(passLog.entry[i]) /\ PrevReal(i) # 0)
         => LET prev == passLog.entry[PrevReal(i)]
                cur == passLog.entry[i]
            IN /\ (tokIsVowelLike(prev) /\ tokIsStopLike(cur))
                    => HasMinFade(i, ctx.lang.boundarySmoothingVowelToStopFadeMs)
               /\ (tokIsStopLike(prev) /\ tokIsVowelLike(cur))
                    => HasMinFade(i, ctx.lang.boundarySmoothingStopToVowelFadeMs)
               /\ (tokIsVowelLike(prev) /\ tokIsFricativeLike(cur))
                    => HasMinFade(i, ctx.lang.boundarySmoothingVowelToFricFadeMs)

\* A real pause lies between token i and every earlier real token.
PauseBefore(i) ==
  \E k \in 1..(i - 1) :
    /\ RealPauseAt(k)
    /\ \A p \in (k + 1)..(i - 1) : tokIsSilenceOrMissing(passLog.entry[p])

\* Real token p and token i have only inserted micro-gaps and silences of
\* at most 60 ms between them.
OnlyShortGapsBetween(p, i) ==
  /\ p \in 1..(i - 1)
  /\ ~tokIsSilenceOrMissing(passLog.entry[p])
  /\ \A k \in (p + 1)..(i - 1) : passLog.entry[k].silence /\ ~RealPauseAt(k)

\* C15: runBoundarySmoothing never treats two phonemes as adjacent across a
\* real pause: a token with a silence that is no inserted micro-gap and is
\* longer than 60 ms between it and every earlier real token keeps its
\* fadeMs; micro-gaps of any duration and silences of at most 60 ms are
\* skipped: a stop-like token with only such silences between it and a
\* vowel-like token before it gets the vowel->stop minimum.
C15_NoAdjacencyAcrossPause ==
  SmoothActive
  => \A i \in DOMAIN tokens :
       /\ PauseBefore(i) => tokens[i].fadeMs = passLog.entry[i].fadeMs
       /\ \A p \in DOMAIN tokens :
            (/\ OnlyShortGapsBetween(p, i)
             /\ tokIsVowelLike(passLog.entry[p])
             /\ tokIsStopLike(passLog.entry[i]))
              => HasMinFade(i, ctx.lang.boundarySmoothingVowelToStopFadeMs)

C15_Witness ==
  /\ SmoothActive
  /\ RLt(R(0), ctx.lang.boundarySmoothingVowelToStopFadeMs)
  /\ \E i \in DOMAIN tokens :
       /\ PauseBefore(i)
       /\ tokIsStopLike(passLog.entry[i])
       /\ \E p \in 1..(i - 1) : tokIsVowelLike(passLog.entry[p])
       /\ ~HasMinFade(i, ctx.lang.boundarySmoothingVowelToStopFadeMs)
       /\ tokens[i].fadeMs = passLog.entry[i].fadeMs

----------------------------------------------------------------------------
(* The speed argument, in queueIPA's gap frame and in the minimum fades of *)
(* runBoundarySmoothing, for every speed and setting.                      *)

SpeedInputs ==
  [speed : Speeds,
   pack : [lang : {"default"}, gap : SegmentGaps \cup {R(7)},
           fade : SegmentFades \cup {R(0)}],
   lang : {SmoothLang(TRUE, 12, 12, 12), SmoothLang(TRUE, -6, 0, 24),
           SmoothLang(TRUE, 12, 24, 7)}]

InitSpeed ==
  /\ speedIn \in SpeedInputs
  /\ speedOut = [kind |-> "none"]
  /\ InitHandle /\ InitHist /\ IdleThreads /\ IdlePass

\* queueIPA on a stream that has speech, with one token to emit.
ApplyGapSpeed ==
  /\ speedOut.kind = "none"
  /\ speedOut' = [kind |-> "gap",
                  frames |-> gapFrames(speedIn.pack, TRUE, <<VowelTok>>,
                                       speedIn.speed, FALSE)]
  /\ UNCHANGED <<speedIn, handleVars, histVars, threadVars, passVars>>

\* runBoundarySmoothing's minimum fades.
ApplySmoothSpeed ==
  /\ speedOut.kind = "none"
  /\ speedOut' = [kind |-> "smooth",
                  fades |-> smoothFades(speedIn.lang, speedIn.speed)]
  /\ UNCHANGED <<speedIn, handleVars, histVars, threadVars, passVars>>

NextSpeed ==
  \/ ApplyGapSpeed
  \/ ApplySmoothSpeed

SpecSpeed == InitSpeed /\ [][NextSpeed]_vars

\* C5: the gap frame has minDurationMs = gap / speed and fadeMs =
\* fade / speed (0 when the configured fade is not positive) for speed > 0,
\* and for speed <= 0 the values of speed 1.0, that is gap and fade
\* themselves; the minimum fades of boundary smoothing for speed <= 0 are
\* those of speed 1.0, max(0, configured fade).
C5_NonPositiveSpeedIsOne ==
  LET sp == speedIn.speed
      gap == speedIn.pack.gap
      fade == speedIn.pack.fade
      by == IF RLt(R(0), sp) THEN sp ELSE R(1)
  IN /\ (speedOut.kind = "gap" /\ RLt(R(0), gap))
        => /\ Len(speedOut.frames) = 1
           /\ speedOut.frames[1].minDurationMs = RDiv(gap, by)
           /\ speedOut.frames[1].fadeMs =
                (IF RLt(R(0), fade) THEN RDiv(fade, by) ELSE R(0))
     /\ (speedOut.kind = "smooth" /\ RLe(sp, R(0)))
        => speedOut.fades =
             [v2s |-> RMax(R(0), speedIn.lang.boundarySmoothingVowelToStopFadeMs),
              s2v |-> RMax(R(0), speedIn.lang.boundarySmoothingStopToVowelFadeMs),
              v2f |-> RMax(R(0), speedIn.lang.boundarySmoothingVowelToFricFadeMs)]

C5_Witness ==
  /\ speedOut.kind = "gap"
  /\ speedIn.speed = R(0)
  /\ speedIn.pack.gap = R(20)
  /\ speedIn.pack.fade = R(4)
  /\ speedOut.frames[1].minDurationMs = R(20)
  /\ speedOut.frames[1].fadeMs = R(4)

----------------------------------------------------------------------------
(* passes/coarticulation.cpp                                               *)

\* coarticulation.cpp:14-16
hasField(t, id) == id \in t.setMask

\* coarticulation.cpp:18-29
getField(t, id) ==
  IF hasField(t, id) THEN t.field[id]
  ELSE IF HasDef(t) /\ id \in DefOf(t).setMask THEN DefOf(t).field[id]
  ELSE R(0)

\* coarticulation.cpp:31-36
setField(t, id, value) ==
  [t EXCEPT !.field[id] = value, !.setMask = @ \cup {id}]

\* coarticulation.cpp:42-44
isVowel(t) == HasDef(t) /\ "kIsVowel" \in DefOf(t).flags

\* coarticulation.cpp:46-48
isSilenceOrMissing(t) == t.silence \/ ~HasDef(t)

\* coarticulation.cpp:50-54
isConsonant(t) == IF ~HasDef(t) THEN FALSE ELSE "kIsVowel" \notin DefOf(t).flags

\* coarticulation.cpp:70-72
isSemivowel(t) == HasDef(t) /\ "kIsSemivowel" \in DefOf(t).flags

\* coarticulation.cpp:74-76
isVowelLike(t) == isVowel(t) \/ isSemivowel(t)

\* coarticulation.cpp:90-113 ("N" = ŋ; the other IPA letters of the lists
\* are not keys of PhonemeDefs)
getPlaceOfArticulation(key) ==
  IF key \in {"p", "b", "m", "f", "v", "w"} THEN "Labial"
  ELSE IF key \in {"t", "d", "n", "s", "z", "l", "r"} THEN "Alveolar"
  ELSE IF key \in {"k", "g", "N", "x"} THEN "Velar"
  ELSE "Unknown"

\* coarticulation.cpp:119-122: tok is the index of the token found, 0 for
\* nullptr.
NoHit == [tok |-> 0, consonantsAway |-> 0]

\* coarticulation.cpp:132-150: the loop of findNearestVowelLeft from the
\* token at index p (tokens[j - 1]) with cons consonants passed.
RECURSIVE leftScan(_, _, _, _, _)
leftScan(toks, p, cons, crossWord, maxConsonants) ==
  IF p < 1 THEN NoHit
  ELSE LET prev == toks[p]
       IN IF isSilenceOrMissing(prev) THEN NoHit
          ELSE IF isVowelLike(prev) THEN [tok |-> p, consonantsAway |-> cons]
          ELSE IF cons + 1 > maxConsonants THEN NoHit
          ELSE IF ~crossWord /\ prev.wordStart THEN NoHit
          ELSE leftScan(toks, p - 1, cons + 1, crossWord, maxConsonants)

\* coarticulation.cpp:124-153 (i is the 1-based index of the token)
findNearestVowelLeft(toks, i, crossWord, maxConsonants) ==
  leftScan(toks, i - 1, 0, crossWord, maxConsonants)

\* coarticulation.cpp:163-181
RECURSIVE rightScan(_, _, _, _, _)
rightScan(toks, p, cons, crossWord, maxConsonants) ==
  IF p > Len(toks) THEN NoHit
  ELSE LET next == toks[p]
       IN IF isSilenceOrMissing(next) THEN NoHit
          ELSE IF ~crossWord /\ next.wordStart THEN NoHit
          ELSE IF isVowelLike(next) THEN [tok |-> p, consonantsAway |-> cons]
          ELSE IF cons + 1 > maxConsonants THEN NoHit
          ELSE rightScan(toks, p + 1, cons + 1, crossWord, maxConsonants)

\* coarticulation.cpp:155-184
findNearestVowelRight(toks, i, crossWord, maxConsonants) ==
  rightScan(toks, i + 1, 0, crossWord, maxConsonants)

\* coarticulation.cpp:186-189
HitWeightFull(h) == IF h.tok = 0 THEN R(0) ELSE R(1)
hitWeight(h) == IF h.tok = 0 THEN R(0) ELSE Rat(1, h.consonantsAway + 1)

\* coarticulation.cpp:195-223; the pointer adjacentVowel is <<token>>, or
\* << >> for nullptr.
applyLocusShift(c, formantId, locus, strength, adjacentVowel) ==
  LET own == getField(c, formantId)
      fromVowel == IF RLe(own, R(0)) /\ adjacentVowel # << >>
                   THEN getField(adjacentVowel[1], formantId) ELSE own
      current == IF RLe(own, R(0)) /\ RLe(fromVowel, R(0)) THEN locus
                 ELSE fromVowel
      shifted == RAdd(current, RMul(RSub(locus, current), strength))
  IN setField(c, formantId, shifted)

\* coarticulation.cpp:250-254
BlendTowardTarget(c, id, target, strength) == setField(c, id, target)
blendToward(c, id, target, strength) ==
  LET own == getField(c, id)
      cur == IF RLe(own, R(0)) THEN target ELSE own
  IN setField(c, id, RAdd(cur, RMul(RSub(target, cur), strength)))

\* coarticulation.cpp:225-263
applyVelarPinch(c, nextVowel, lang, strengthArg) ==
  LET strength == RClamp(strengthArg, R(0), R(1))
      f2c == getField(nextVowel, "cf2")
      vowelF2 == IF RLe(f2c, R(0)) THEN getField(nextVowel, "pf2") ELSE f2c
      pinchF2 == RMul(vowelF2, lang.coarticulationVelarPinchF2Scale)
      pinchF3 == lang.coarticulationVelarPinchF3
      c2 == blendToward(blendToward(c, "cf2", pinchF2, strength),
                        "pf2", pinchF2, strength)
  IN IF RLe(strength, R(0)) THEN c
     ELSE IF RLt(vowelF2, lang.coarticulationVelarPinchThreshold) THEN c
     ELSE IF RLt(R(0), pinchF3)
     THEN blendToward(blendToward(c2, "cf3", pinchF3, strength),
                      "pf3", pinchF3, strength)
     ELSE c2

\* std::round: to the nearest integer, halfway cases away from zero.
round(x) ==
  IF x.n >= 0 THEN (2 * x.n + x.d) \div (2 * x.d)
  ELSE -((2 * (-x.n) + x.d) \div (2 * x.d))

\* std::clamp on int
clampInt(x, lo, hi) == IF x < lo THEN lo ELSE IF x > hi THEN hi ELSE x

\* coarticulation.cpp:293-305
locusOf(place, lang) ==
  CASE place = "Labial" -> lang.coarticulationLabialF2Locus
    [] place = "Alveolar" -> lang.coarticulationAlveolarF2Locus
    [] place = "Velar" -> lang.coarticulationVelarF2Locus

\* coarticulation.cpp:352-372
fadeIntoConsonant(c, w, extent, lang) ==
  IF lang.coarticulationFadeIntoConsonants /\ RLt(R(0), extent)
     /\ RLt(R(0), c.durationMs)
  THEN LET m0 == RMul(c.durationMs, extent)
           m1 == IF lang.coarticulationGraduated
                 THEN RMul(m0, RClamp(w, R(0), R(1))) ELSE m0
           minFade == IF c.wordStart
                      THEN RMul(m1, lang.coarticulationWordInitialFadeScale)
                      ELSE m1
           fade == RMax(c.fadeMs, minFade)
       IN [c EXCEPT !.fadeMs = IF RLt(c.durationMs, fade) THEN c.durationMs
                               ELSE fade]
  ELSE c

\* coarticulation.cpp:279-372: the loop body for token i.  st holds the
\* vector and, for the tokens that reached the context search, what the two
\* searches returned, w (line 319-321) and effStrength (line 328).
coarticulateToken(st, i, lang, strength, extent) ==
  LET toks == st.toks
      c == toks[i]
      place == getPlaceOfArticulation(DefOf(c).key)
      locusF2 == locusOf(place, lang)
      maxCons == clampInt(round(lang.coarticulationAdjacencyMaxConsonants), 0, 6)
      left == findNearestVowelLeft(toks, i, FALSE, maxCons)
      right == findNearestVowelRight(toks, i, FALSE, maxCons)
      w == IF lang.coarticulationGraduated
           THEN RMax(hitWeight(left), hitWeight(right)) ELSE R(1)
      effStrength == RMul(strength, RClamp(w, R(0), R(1)))
      adjIdx == IF right.tok # 0
                   /\ (left.tok = 0 \/ right.consonantsAway <= left.consonantsAway)
                THEN right.tok ELSE left.tok
      adjacentVowel == IF adjIdx = 0 THEN << >> ELSE <<toks[adjIdx]>>
      shifted ==
        IF place = "Velar" /\ lang.coarticulationVelarPinchEnabled
           /\ right.tok # 0 /\ right.consonantsAway = 0
        THEN applyVelarPinch(c, toks[right.tok], lang, effStrength)
        ELSE applyLocusShift(applyLocusShift(c, "cf2", locusF2, effStrength,
                                             adjacentVowel),
                             "pf2", locusF2, effStrength, adjacentVowel)
      searched == [st EXCEPT !.hits = @ @@ (i :> [left |-> left, right |-> right,
                                                   w |-> w, eff |-> effStrength])]
  IN IF isSilenceOrMissing(c) THEN st
     ELSE IF ~isConsonant(c) THEN st
     ELSE IF place = "Unknown" THEN st
     ELSE IF lang.coarticulationGraduated /\ RLe(w, R(0)) THEN searched
     ELSE [searched EXCEPT !.toks[i] = fadeIntoConsonant(shifted, w, extent, lang)]

\* coarticulation.cpp:278: for (i = 0; i < tokens.size(); ++i)
RECURSIVE coarticulateLoop(_, _, _, _, _)
coarticulateLoop(st, i, lang, strength, extent) ==
  IF i > Len(st.toks) THEN st
  ELSE coarticulateLoop(coarticulateToken(st, i, lang, strength, extent),
                        i + 1, lang, strength, extent)

\* coarticulation.cpp:267-376
runCoarticulation(c, toks) ==
  LET lang == c.lang
      strength == RClamp(lang.coarticulationStrength, R(0), R(1))
      extent == RClamp(lang.coarticulationTransitionExtent, R(0), R(1))
      st == [toks |-> toks, hits |-> << >>]
  IN IF ~lang.coarticulationEnabled THEN st
     ELSE IF RLe(strength, R(0)) THEN st
     ELSE coarticulateLoop(st, 1, lang, strength, extent)

----------------------------------------------------------------------------
(* The coarticulation pass run on a token vector.                          *)

WordInitial(t) == [t EXCEPT !.wordStart = TRUE]

\* Vowels (back and front), a semivowel, consonants of the three places and
\* of none, word-initial or not, and a silence.
CoartTokens ==
  LET plain == {Tok(k, 40, 10) : k \in {"a", "i", "w", "k", "t", "m"}}
  IN plain \cup {WordInitial(t) : t \in plain} \cup {Tok("h", 40, 10), Sil(40)}

CoartLang(enabled, strength, graduated, pinch, maxConsonants, fadeInto) ==
  [coarticulationEnabled |-> enabled,
   coarticulationStrength |-> strength,
   coarticulationTransitionExtent |-> Rat(1, 2),
   coarticulationLabialF2Locus |-> R(800),
   coarticulationAlveolarF2Locus |-> R(1800),
   coarticulationVelarF2Locus |-> R(2200),
   coarticulationAdjacencyMaxConsonants |-> maxConsonants,
   coarticulationGraduated |-> graduated,
   coarticulationVelarPinchEnabled |-> pinch,
   coarticulationVelarPinchThreshold |-> R(1800),
   coarticulationVelarPinchF2Scale |-> Rat(9, 10),
   coarticulationVelarPinchF3 |-> R(2400),
   coarticulationFadeIntoConsonants |-> fadeInto,
   coarticulationWordInitialFadeScale |-> Rat(1, 2)]

CoartContexts ==
  [speed : {R(1)},
   lang : {CoartLang(TRUE, R(1), TRUE, TRUE, R(2), FALSE),
           CoartLang(TRUE, Rat(1, 2), TRUE, TRUE, Rat(3, 2), TRUE),
           [CoartLang(TRUE, R(2), FALSE, TRUE, R(1), FALSE)
              EXCEPT !.coarticulationVelarPinchF3 = R(0)],
           CoartLang(TRUE, Rat(1, 2), TRUE, FALSE, R(0), TRUE),
           CoartLang(TRUE, R(0), TRUE, TRUE, R(2), FALSE),
           CoartLang(FALSE, R(1), TRUE, TRUE, R(2), FALSE)}]

InitCoart ==
  /\ tokens \in Vectors(CoartTokens)
  /\ ctx \in CoartContexts
  /\ passPc = "coarticulate"
  /\ passLog = [entry |-> tokens, hits |-> << >>]
  /\ InitHandle /\ InitHist /\ IdleThreads /\ IdleSpeed

RunCoarticulation ==
  /\ passPc = "coarticulate"
  /\ LET st == runCoarticulation(ctx, tokens)
     IN /\ tokens' = st.toks
        /\ passLog' = [entry |-> tokens, hits |-> st.hits]
  /\ passPc' = "coarticulated"
  /\ UNCHANGED <<ctx, handleVars, histVars, threadVars, speedVars>>

NextCoart == RunCoarticulation

SpecCoart == InitCoart /\ [][NextCoart]_vars

\* C10: a vowel-like token returned by the left or right context search of
\* token i is in the same word as token i and no silence lies between them:
\* no token with wordStart lies after a left hit up to and including i, nor
\* after i up to and including a right hit.
C10_SearchStaysInWord ==
  passPc = "coarticulated"
  => \A i \in DOMAIN passLog.hits :
       LET h == passLog.hits[i]
       IN /\ h.left.tok # 0
             => \A k \in (h.left.tok + 1)..i :
                  ~tokens[k].wordStart /\ ~tokens[k].silence
          /\ h.right.tok # 0
             => \A k \in (i + 1)..h.right.tok :
                  ~tokens[k].wordStart /\ ~tokens[k].silence

\* The pass ran past its two early returns (coarticulation.cpp:271, 274).
CoartActive ==
  /\ passPc = "coarticulated"
  /\ ctx.lang.coarticulationEnabled
  /\ RLt(R(0), ctx.lang.coarticulationStrength)

\* The consonants with a known place (the tokens that reached the context
\* search) for which a search found a vowel-like token.
InRange == {i \in DOMAIN passLog.hits :
              passLog.hits[i].left.tok # 0 \/ passLog.hits[i].right.tok # 0}

\* C11: after runCoarticulation with coarticulation enabled and strength
\* > 0, every non-silence consonant with a known place of articulation that
\* has a vowel-like token in range has both cf2 and pf2 written (set-mask
\* bits set); none is left unmodified, a velar immediately followed by a
\* back vowel with velar pinch enabled included.
C11_PlacedConsonantsAreShifted ==
  CoartActive
  => \A i \in InRange : {"cf2", "pf2"} \subseteq tokens[i].setMask

\* The number of tokens between token i and the nearest vowel-like token a
\* search found for it.
ConsonantsAway(i) ==
  LET h == passLog.hits[i]
      ds == (IF h.left.tok # 0 THEN {i - h.left.tok - 1} ELSE {})
              \cup (IF h.right.tok # 0 THEN {h.right.tok - i - 1} ELSE {})
  IN CHOOSE d \in ds : \A e \in ds : d <= e

\* Token i left the pass with a formant written.
Shifted(i) == tokens[i].setMask # passLog.entry[i].setMask

\* A velar handed to applyVelarPinch (coarticulation.cpp:339-343).
PinchCase(i) ==
  /\ getPlaceOfArticulation(passLog.entry[i].def) = "Velar"
  /\ ctx.lang.coarticulationVelarPinchEnabled
  /\ i < Len(tokens)
  /\ passLog.hits[i].right.tok = i + 1

\* What the F2 of token i is pulled toward.
F2Target(i) ==
  IF PinchCase(i)
  THEN RMul(getField(passLog.entry[i + 1], "cf2"),
            ctx.lang.coarticulationVelarPinchF2Scale)
  ELSE locusOf(getPlaceOfArticulation(passLog.entry[i].def), ctx.lang)

\* Token i was shifted with interpolation strength s: that is the strength
\* the pass computed, and pf2 moved from its value to F2Target by s.
ShiftedWith(i, s) ==
  LET cur == getField(passLog.entry[i], "pf2")
  IN /\ passLog.hits[i].eff = s
     /\ RLt(R(0), cur)
          => getField(tokens[i], "pf2") =
               RAdd(cur, RMul(RSub(F2Target(i), cur), s))

\* Strength scaled by distance: a shifted consonant is shifted with
\* clamp(coarticulationStrength) / (consonantsAway + 1), which is less than
\* the full strength when consonantsAway >= 1, and a consonant with no
\* vowel-like token in range is not shifted.
StrengthFollowsDistance ==
  LET strength == RClamp(ctx.lang.coarticulationStrength, R(0), R(1))
  IN \A i \in DOMAIN passLog.hits :
       /\ i \notin InRange => tokens[i] = passLog.entry[i]
       /\ (i \in InRange /\ Shifted(i))
            => /\ ShiftedWith(i, RMul(strength, Rat(1, ConsonantsAway(i) + 1)))
               /\ ConsonantsAway(i) >= 1 => RLt(passLog.hits[i].eff, strength)

VelarAt(i) ==
  LET c == passLog.entry[i]
  IN /\ ~isSilenceOrMissing(c)
     /\ isConsonant(c)
     /\ getPlaceOfArticulation(DefOf(c).key) = "Velar"

\* The F2 of a vowel-like token: cf2, or pf2 when cf2 is not positive.
VowelF2(t) ==
  IF RLt(R(0), getField(t, "cf2")) THEN getField(t, "cf2") ELSE getField(t, "pf2")

\* Token j is a front vowel-like token: its F2 is above the threshold.
FrontVowelAt(j) ==
  /\ j \in DOMAIN tokens
  /\ ~isSilenceOrMissing(passLog.entry[j])
  /\ isVowelLike(passLog.entry[j])
  /\ RLt(ctx.lang.coarticulationVelarPinchThreshold, VowelF2(passLog.entry[j]))

\* Formant id of token i was written with cur + (target - cur) * s, where
\* cur is the value it had, or target when it had none.
Pinched(i, id, target, s) ==
  LET own == getField(passLog.entry[i], id)
      cur == IF RLt(R(0), own) THEN own ELSE target
  IN /\ id \in tokens[i].setMask
     /\ tokens[i].field[id] = RAdd(cur, RMul(RSub(target, cur), s))

\* Token i got the velar pinch of the vowel-like token j at full clamped
\* strength (w = 1 for an adjacent vowel): cf2/pf2 toward vowelF2 * scale
\* and, when velarPinchF3 is positive, cf3/pf3 toward velarPinchF3.
GetsPinch(i, j) ==
  LET s == RClamp(ctx.lang.coarticulationStrength, R(0), R(1))
      pinchF2 == RMul(VowelF2(passLog.entry[j]),
                      ctx.lang.coarticulationVelarPinchF2Scale)
      pinchF3 == ctx.lang.coarticulationVelarPinchF3
  IN /\ Pinched(i, "cf2", pinchF2, s)
     /\ Pinched(i, "pf2", pinchF2, s)
     /\ RLt(R(0), pinchF3)
          => Pinched(i, "cf3", pinchF3, s) /\ Pinched(i, "pf3", pinchF3, s)

\* The front vowel-like tokens next to token i in its word: the token
\* before it unless i starts the word, the token after it unless that one
\* starts a word.
FrontNeighbours(i) ==
  {j \in {i - 1, i + 1} :
     /\ FrontVowelAt(j)
     /\ ~passLog.entry[IF j < i THEN i ELSE j].wordStart}

====
